---------------------------- MODULE Spec2Model ----------------------------
(***************************************************************************)
(* The client upload form of the AI Calorie Counter                        *)
(* (frontend/src/App.tsx): the App component's state, the callbacks it     *)
(* hands to the antd Upload and Button components, and the asynchronous    *)
(* continuations of FileReader and fetch.                                  *)
(*                                                                         *)
(* JavaScript runs every callback to completion, so each action below is   *)
(* one callback or one continuation between two awaits.                    *)
(***************************************************************************)
EXTENDS Integers, Sequences, FiniteSets, Bags, TLC

VARIABLES
    fileList,   \* useState<UploadFile[]>([])            (App.tsx:37)
    uploading,  \* useState<boolean>(false)              (App.tsx:38)
    imageUrl,   \* useState<string | null>(null)         (App.tsx:39)
    result,     \* useState<AnalysisResult | null>(null) (App.tsx:40)
    error,      \* useState<string | null>(null)         (App.tsx:41)
    readers,    \* FileReaders whose onload has not fired yet (bag of files)
    requests,   \* handleUpload calls suspended at an await, oldest first
    last        \* the callback that ran last, its argument and its message.error

vars == <<fileList, uploading, imageUrl, result, error, readers, requests, last>>

---------------------------------------------------------------------------
(* Bounds of the model *)

\* FileReaders that may be pending at once.
MaxReaders == 1
\* handleUpload calls that may be suspended at once.
MaxInFlight == 2

---------------------------------------------------------------------------
(* JavaScript values *)

Undefined == [t |-> "undefined"]
Null == [t |-> "null"]
Str(s) == [t |-> "str", s |-> s]
Num(n) == [t |-> "num", n |-> n]
Arr(a) == [t |-> "arr", a |-> a]
Obj(o) == [t |-> "obj", o |-> o]

\* ToBoolean, as `||` and `&&` apply it.
Truthy(v) ==
    CASE v.t = "undefined" -> FALSE
      [] v.t = "null" -> FALSE
      [] v.t = "str" -> v.s # ""
      [] v.t = "num" -> v.n # 0
      [] OTHER -> TRUE

\* a || b
JsOr(a, b) == IF Truthy(a) THEN a ELSE b

\* v.k for a value that is neither null nor undefined
Get(v, k) == IF v.t = "obj" /\ k \in DOMAIN v.o THEN v.o[k] ELSE Undefined

\* String(v), as `new Error(v)` applies it to its argument
ToStr(v) ==
    CASE v.t = "str" -> v.s
      [] v.t = "num" -> ToString(v.n)
      [] v.t = "null" -> "null"
      [] v.t = "undefined" -> "undefined"
      [] v.t = "arr" -> "[array]"
      [] OTHER -> "[object Object]"

---------------------------------------------------------------------------
(* Files the user may pick *)

MAX_FILE_SIZE_MB == 4

File(uid, name, type, size) == [uid |-> uid, name |-> name, type |-> type, size |-> size]

NoFile == File(0, "", "", 0)

Files ==
    { File(1, "a.jpg", "image/jpeg", 4 * 1024 * 1024 - 1),
      File(2, "b.png", "image/png", 1),
      File(3, "c.jpg", "image/jpeg", 4 * 1024 * 1024),
      File(4, "d.png", "image/png", 4 * 1024 * 1024 + 1),
      File(5, "e.jpg", "image/jpg", 1) }

\* reader.readAsDataURL(file): "data:<type>;base64,<the file's bytes>"
DataURL(file) == Str("data:" \o file.type \o ";base64," \o ToString(file.uid))

\* URL.createObjectURL(file)
ObjectURL(file) == "blob:" \o ToString(file.uid)

\* The UploadFile that beforeUpload stores for an accepted file.
UploadFile(file) ==
    [uid |-> file.uid, name |-> file.name, status |-> "done",
     url |-> ObjectURL(file), originFileObj |-> file]

\* file.originFileObj instanceof Blob: an RcFile is a File, hence a Blob.
IsBlob(f) == f \in Files

---------------------------------------------------------------------------
(* The analysis endpoint, as the client sees it *)

\* HTTP statuses the endpoint answers with.
Statuses == {200, 404, 500}

\* response.ok
Ok(status) == status \in 200..299

\* A response body: json() resolves with the parsed value v, or rejects with
\* an error whose message is v.
Parsed(v) == [ok |-> TRUE, v |-> v]
Unparseable == [ok |-> FALSE, v |-> Str("Unexpected token < in JSON at position 0")]

NutritionOk ==
    Obj([name |-> Str("apple"), calories |-> Num(52), protein |-> Num(0),
         carbs |-> Num(14), fats |-> Num(0)])
NutritionError ==
    Obj([name |-> Str(""), calories |-> Num(0), protein |-> Num(0),
         carbs |-> Num(0), fats |-> Num(0), error |-> Str("No nutrition data")])

AnalysisA ==
    Obj([detected_food |-> Arr(<<Str("apple"), Str("fruit")>>),
         main_ingredient |-> Str("apple"),
         nutrition_info |-> NutritionOk,
         healthier_alternative |-> Str("none needed")])
AnalysisB ==
    Obj([detected_food |-> Arr(<<>>),
         main_ingredient |-> Str("unknown"),
         nutrition_info |-> NutritionError,
         healthier_alternative |-> Str("try a salad")])

\* An analysis whose nutrition_info carries an empty error string.
AnalysisC ==
    Obj([detected_food |-> Arr(<<Str("rice")>>),
         main_ingredient |-> Str("rice"),
         nutrition_info |->
             Obj([name |-> Str("rice"), calories |-> Num(130), protein |-> Num(3),
                  carbs |-> Num(28), fats |-> Num(1), error |-> Str("")]),
         healthier_alternative |-> Str("brown rice")])

\* Bodies of 2xx responses.
OkBodies == {Parsed(AnalysisA), Parsed(AnalysisB), Parsed(AnalysisC), Unparseable}

\* Bodies of non-2xx responses.
ErrBodies ==
    { Parsed(Obj([message |-> Str("no food detected")])),
      Parsed(Obj([error |-> Str("upstream failure")])),
      Parsed(Obj([message |-> Str("no food detected"), error |-> Str("upstream failure")])),
      Parsed(Obj([message |-> Str(""), error |-> Str("upstream failure")])),
      Parsed(Obj([detail |-> Str("Internal Server Error")])),
      Parsed(Null),
      Unparseable }

\* The message of the TypeError fetch rejects with when the network fails.
NetworkErrors == {"Failed to fetch"}

---------------------------------------------------------------------------
(* message.error texts *)

MsgType == "You can only upload JPG/PNG file!"
MsgSize == "Image must be smaller than " \o ToString(MAX_FILE_SIZE_MB) \o "MB for serverless functions!"
MsgSelect == "Please select an image first!"
MsgInvalid == "Invalid file object"

\* What `last` records of a callback: its name, the file it was given, the
\* selection it found, and the message.error it raised ("" for none).
Event(op, file, msg) ==
    [op |-> op, file |-> file, msg |-> msg,
     had |-> IF op = "beforeUpload" /\ fileList # <<>> THEN fileList[1].originFileObj ELSE NoFile]

---------------------------------------------------------------------------
(* Initial state: the useState initialisers *)

Init ==
    /\ fileList = <<>>
    /\ uploading = FALSE
    /\ imageUrl = Null
    /\ result = Null
    /\ error = Null
    /\ readers = EmptyBag
    /\ requests = <<>>
    /\ last = Event("mount", NoFile, "")

---------------------------------------------------------------------------
(* props.onRemove *)

\* onRemove that also abandons the requests in flight.
onRemoveCancels ==
    /\ fileList' = <<>>
    /\ imageUrl' = Null
    /\ error' = Null
    /\ requests' = <<>>
    /\ uploading' = FALSE
    /\ last' = Event("onRemove", NoFile, "")
    /\ UNCHANGED <<result, readers>>

\* onRemove that also clears the displayed result.
onRemoveClearsResult ==
    /\ fileList' = <<>>
    /\ imageUrl' = Null
    /\ error' = Null
    /\ result' = Null
    /\ last' = Event("onRemove", NoFile, "")
    /\ UNCHANGED <<uploading, readers, requests>>

onRemove ==
    /\ fileList' = <<>>
    /\ imageUrl' = Null
    /\ error' = Null
    /\ last' = Event("onRemove", NoFile, "")
    /\ UNCHANGED <<uploading, result, readers, requests>>

---------------------------------------------------------------------------
(* props.beforeUpload *)

\* A looser type check: any spelling of JPEG passes.
isJpgOrPngLoose(file) == file.type \in {"image/jpeg", "image/jpg", "image/png"}

isJpgOrPng(file) == file.type = "image/jpeg" \/ file.type = "image/png"

\* The ceiling taken as inclusive.
isUnderSizeLimitInclusive(file) == file.size <= MAX_FILE_SIZE_MB * 1024 * 1024

\* file.size / 1024 / 1024 < MAX_FILE_SIZE_MB: dividing a double by a power
\* of two is exact, so the comparison is the one on the integers.
isUnderSizeLimit(file) == file.size < MAX_FILE_SIZE_MB * 1024 * 1024

\* The new file added to the list instead of replacing it.
NewFileListAppends(file) == Append(fileList, UploadFile(file))

\* Lines 70-78: the list handed to setFileList.
NewFileList(file) == <<UploadFile(file)>>

\* setError(null) moved above the two admission checks.
beforeUploadClearsErrorFirst(file) ==
    IF ~isJpgOrPng(file)
    THEN /\ error' = Null
         /\ last' = Event("beforeUpload", file, MsgType)
         /\ UNCHANGED <<fileList, uploading, imageUrl, result, readers, requests>>
    ELSE IF ~isUnderSizeLimit(file)
    THEN /\ error' = Null
         /\ last' = Event("beforeUpload", file, MsgSize)
         /\ UNCHANGED <<fileList, uploading, imageUrl, result, readers, requests>>
    ELSE /\ BagCardinality(readers) < MaxReaders
         /\ readers' = readers (+) SetToBag({file})
         /\ fileList' = NewFileList(file)
         /\ error' = Null
         /\ last' = Event("beforeUpload", file, "")
         /\ UNCHANGED <<uploading, imageUrl, result, requests>>

beforeUpload(file) ==
    IF ~isJpgOrPng(file)
    THEN /\ last' = Event("beforeUpload", file, MsgType)
         /\ UNCHANGED <<fileList, uploading, imageUrl, result, error, readers, requests>>
    ELSE IF ~isUnderSizeLimit(file)
    THEN /\ last' = Event("beforeUpload", file, MsgSize)
         /\ UNCHANGED <<fileList, uploading, imageUrl, result, error, readers, requests>>
    ELSE /\ BagCardinality(readers) < MaxReaders
         /\ readers' = readers (+) SetToBag({file})
         /\ fileList' = NewFileList(file)
         /\ error' = Null
         /\ last' = Event("beforeUpload", file, "")
         /\ UNCHANGED <<uploading, imageUrl, result, requests>>

\* reader.onload
readerOnload(file) ==
    /\ BagIn(file, readers)
    /\ readers' = readers (-) SetToBag({file})
    /\ imageUrl' = DataURL(file)
    /\ last' = Event("reader.onload", file, "")
    /\ UNCHANGED <<fileList, uploading, result, error, requests>>

\* The read fails: no onerror handler is installed, nothing happens.
readerFails(file) ==
    /\ BagIn(file, readers)
    /\ readers' = readers (-) SetToBag({file})
    /\ last' = Event("reader.onerror", file, "")
    /\ UNCHANGED <<fileList, uploading, imageUrl, result, error, requests>>

---------------------------------------------------------------------------
(* handleUpload *)

\* The antd wrapper appended in place of the file it wraps.
FormDataOfWrapper(file) == <<[name |-> "image", value |-> file]>>

\* formData.append('image', file.originFileObj) on a new FormData
FormData(file) == <<[name |-> "image", value |-> file.originFileObj]>>

\* A handleUpload call suspended at `await fetch(...)`.
Request(formData) == [body |-> formData, at |-> "fetch", status |-> 0]

\* s without its i-th element
Drop(s, i) == SubSeq(s, 1, i - 1) \o SubSeq(s, i + 1, Len(s))

\* The request started without setUploading(true).
startRequestNoFlag(file) ==
    /\ uploading' = uploading
    /\ error' = Null
    /\ requests' = Append(requests, Request(FormData(file)))

\* The request started without setError(null).
startRequestKeepsError(file) ==
    /\ uploading' = TRUE
    /\ error' = error
    /\ requests' = Append(requests, Request(FormData(file)))

\* Lines 102-109: setUploading(true), setError(null) and the call of fetch.
startRequest(file) ==
    /\ uploading' = TRUE
    /\ error' = Null
    /\ requests' = Append(requests, Request(FormData(file)))

\* setUploading(true) and setError(null) moved above the two guards.
handleUploadFlagFirst ==
    IF fileList = <<>>
    THEN /\ uploading' = TRUE
         /\ error' = Null
         /\ last' = Event("handleUpload", NoFile, MsgSelect)
         /\ UNCHANGED <<fileList, imageUrl, result, readers, requests>>
    ELSE /\ Len(requests) < MaxInFlight
         /\ startRequest(fileList[1])
         /\ last' = Event("handleUpload", fileList[1].originFileObj, "")
         /\ UNCHANGED <<fileList, imageUrl, result, readers>>

\* Lines 86-109: the synchronous part, up to the await of fetch.
handleUpload ==
    IF fileList = <<>>
    THEN /\ last' = Event("handleUpload", NoFile, MsgSelect)
         /\ UNCHANGED <<fileList, uploading, imageUrl, result, error, readers, requests>>
    ELSE IF ~IsBlob(fileList[1].originFileObj)
    THEN /\ last' = Event("handleUpload", NoFile, MsgInvalid)
         /\ UNCHANGED <<fileList, uploading, imageUrl, result, error, readers, requests>>
    ELSE /\ Len(requests) < MaxInFlight
         /\ startRequest(fileList[1])
         /\ last' = Event("handleUpload", fileList[1].originFileObj, "")
         /\ UNCHANGED <<fileList, imageUrl, result, readers>>

\* catch that shows a fixed text in place of err.message.
CaughtFixedText(i, message) ==
    /\ error' = Str("Something went wrong")
    /\ result' = Null
    /\ uploading' = FALSE
    /\ requests' = Drop(requests, i)

\* catch without setResult(null): the previous result stays.
CaughtKeepsResult(i, message) ==
    /\ error' = Str(message)
    /\ result' = result
    /\ uploading' = FALSE
    /\ requests' = Drop(requests, i)

\* catch without the finally: the flag is left as it was.
CaughtNoFinally(i, message) ==
    /\ error' = Str(message)
    /\ result' = Null
    /\ uploading' = uploading
    /\ requests' = Drop(requests, i)

\* Lines 124-129: catch (err) and finally, which end every failed call.
Caught(i, message) ==
    /\ error' = Str(message)
    /\ result' = Null
    /\ uploading' = FALSE
    /\ requests' = Drop(requests, i)

\* fetch resolves with a response: line 111 picks the json() to await.
fetchResolves(i, status) ==
    /\ requests[i].at = "fetch"
    /\ requests' = [requests EXCEPT ![i].at = IF Ok(status) THEN "json" ELSE "errorJson",
                                    ![i].status = status]
    /\ last' = Event("fetch.resolve", NoFile, "")
    /\ UNCHANGED <<fileList, uploading, imageUrl, result, error, readers>>

\* fetch rejects (network failure): straight to catch.
fetchRejects(i, message) ==
    /\ requests[i].at = "fetch"
    /\ Caught(i, message)
    /\ last' = Event("fetch.reject", NoFile, "")
    /\ UNCHANGED <<fileList, imageUrl, readers>>

\* The two fields read in the other order: error before message.
errorMessageErrorFirst(status, body) ==
    IF ~body.ok \/ body.v.t \in {"null", "undefined"}
    THEN Str("Error " \o ToString(status))
    ELSE JsOr(JsOr(Get(body.v, "error"), Get(body.v, "message")),
              Str("Error " \o ToString(status)))

\* Lines 112-118: the message of the Error thrown for a non-ok response whose
\* json() settled as `body`. Reading a property of null throws, and the inner
\* catch answers that like a body that does not parse.
errorMessage(status, body) ==
    IF ~body.ok \/ body.v.t \in {"null", "undefined"}
    THEN Str("Error " \o ToString(status))
    ELSE JsOr(JsOr(Get(body.v, "message"), Get(body.v, "error")),
              Str("Error " \o ToString(status)))

\* Lines 114-119, 124-129: the json() of a non-ok response settles.
errorJsonSettles(i, body) ==
    /\ requests[i].at = "errorJson"
    /\ Caught(i, ToStr(errorMessage(requests[i].status, body)))
    /\ last' = Event("errorJson.settle", NoFile, "")
    /\ UNCHANGED <<fileList, imageUrl, readers>>

\* Lines 122-123, 127-129: the json() of an ok response resolves.
jsonResolves(i, body) ==
    /\ requests[i].at = "json"
    /\ body.ok
    /\ result' = body.v
    /\ uploading' = FALSE
    /\ requests' = Drop(requests, i)
    /\ last' = Event("json.resolve", NoFile, "")
    /\ UNCHANGED <<fileList, imageUrl, error, readers>>

\* Lines 122, 124-129: the json() of an ok response rejects.
jsonRejects(i, body) ==
    /\ requests[i].at = "json"
    /\ ~body.ok
    /\ Caught(i, ToStr(body.v))
    /\ last' = Event("json.reject", NoFile, "")
    /\ UNCHANGED <<fileList, imageUrl, readers>>

---------------------------------------------------------------------------
(* The rendered controls *)

\* <Button disabled={fileList.length === 0}>
ButtonDisabled == Len(fileList) = 0

\* A button that is never shown as loading.
ButtonNeverLoading == FALSE

\* <Button loading={uploading}>
ButtonLoading == uploading

\* antd's Button calls onClick unless it is disabled or loading.
clickAnalyze ==
    /\ ~ButtonDisabled
    /\ ~ButtonLoading
    /\ handleUpload

\* The remove icon belongs to the card of a file of fileList.
clickRemove ==
    /\ Len(fileList) > 0
    /\ onRemove

---------------------------------------------------------------------------
(* The rendered result (App.tsx:159-231) *)

\* <Text type=...>{v}</Text>, <Paragraph>{v}</Paragraph>
Text(type, v) == [el |-> "Text", type |-> type, value |-> v]

\* <Statistic title=... value={v} suffix=... />
Statistic(title, v, suffix) ==
    [el |-> "Statistic", title |-> title, value |-> v, suffix |-> suffix]

\* <List dataSource={items} renderItem={(item) => <List.Item>{item}</List.Item>} />
ListOf(items) == [el |-> "List", items |-> items]

\* The nutrition block with every number in grams.
RenderNutritionAllGrams(info) ==
    IF Truthy(Get(info, "error"))
    THEN <<Text("danger", Get(info, "error"))>>
    ELSE <<Text("", Get(info, "name")),
           Statistic("Calories", Get(info, "calories"), "g"),
           Statistic("Protein", Get(info, "protein"), "g"),
           Statistic("Carbs", Get(info, "carbs"), "g"),
           Statistic("Fats", Get(info, "fats"), "g")>>

\* Lines 191-214: the nutrition block.
RenderNutrition(info) ==
    IF Truthy(Get(info, "error"))
    THEN <<Text("danger", Get(info, "error"))>>
    ELSE <<Text("", Get(info, "name")),
           Statistic("Calories", Get(info, "calories"), "kcal"),
           Statistic("Protein", Get(info, "protein"), "g"),
           Statistic("Carbs", Get(info, "carbs"), "g"),
           Statistic("Fats", Get(info, "fats"), "g")>>

\* Lines 170-231: the results section, <<>> when it is not rendered.
RenderResults ==
    IF ~Truthy(result)
    THEN <<>>
    ELSE <<[detected |-> ListOf(Get(result, "detected_food").a),
            main |-> Text("strong", Get(result, "main_ingredient")),
            nutrition |-> RenderNutrition(Get(result, "nutrition_info")),
            alternative |-> Text("", Get(result, "healthier_alternative")),
            image |-> IF Truthy(imageUrl) THEN <<imageUrl>> ELSE <<>>]>>

\* Lines 159-168: the error section, <<>> when it is not rendered.
RenderError ==
    IF ~Truthy(error) THEN <<>> ELSE <<Text("danger", Str("Error: " \o ToStr(error)))>>

---------------------------------------------------------------------------
(* Specifications *)

\* What happens without the user: FileReader and fetch continuations.
Continue ==
    \/ \E file \in Files : readerOnload(file)
    \/ \E file \in Files : readerFails(file)
    \/ \E i \in 1..Len(requests), status \in Statuses : fetchResolves(i, status)
    \/ \E i \in 1..Len(requests), message \in NetworkErrors : fetchRejects(i, message)
    \/ \E i \in 1..Len(requests), body \in ErrBodies : errorJsonSettles(i, body)
    \/ \E i \in 1..Len(requests), body \in OkBodies : jsonResolves(i, body)
    \/ \E i \in 1..Len(requests), body \in OkBodies : jsonRejects(i, body)

\* The page: callbacks run when the rendered controls invoke them.
Next ==
    \/ \E file \in Files : beforeUpload(file)
    \/ clickRemove
    \/ clickAnalyze
    \/ Continue

Spec == Init /\ [][Next]_vars

\* The callbacks on their own, invoked in any state.
NextCallbacks ==
    \/ \E file \in Files : beforeUpload(file)
    \/ onRemove
    \/ handleUpload
    \/ Continue

SpecCallbacks == Init /\ [][NextCallbacks]_vars

---------------------------------------------------------------------------
(* Vocabulary of the properties *)

\* The file object held by the selection, if any.
Selected(f) == fileList # <<>> /\ \E k \in 1..Len(fileList) : fileList[k].originFileObj = f

\* f is a part of the body of a POST that has not resolved yet. Every POST is
\* unresolved in the state right after it is issued, so a file that is never
\* in such a body is never sent.
Posted(f) ==
    \E i \in 1..Len(requests) : \E k \in 1..Len(requests[i].body) :
        requests[i].body[k].value = f

\* The step ran the named callback.
Ran(op) == last'.op = op

\* The step issued a POST.
IssuesPost == Len(requests') > Len(requests)

PermittedTypes == {"image/jpeg", "image/png"}

FourMiB == 4 * 1024 * 1024

---------------------------------------------------------------------------
(* C1 *)

\* C1: a file whose MIME type is not exactly image/jpeg or image/png is never
\* in fileList and never in the body of a POST; beforeUpload leaves the
\* selection as it was when given such a file; and no step taken while the
\* selection is empty (so none after a rejection that found it empty) issues
\* a POST.
C1_WrongTypeNeverSubmitted ==
    /\ [](\A f \in Files : f.type \notin PermittedTypes => ~Selected(f) /\ ~Posted(f))
    /\ [][(Ran("beforeUpload") /\ last'.file.type \notin PermittedTypes)
            => fileList' = fileList /\ requests' = requests]_vars
    /\ [][fileList = <<>> => ~IssuesPost]_vars

\* A file of type image/jpg has just been turned away with the type message,
\* and nothing is selected.
C1_Witness ==
    /\ last.op = "beforeUpload"
    /\ last.file.type = "image/jpg"
    /\ last.msg = MsgType
    /\ fileList = <<>>
    /\ requests = <<>>

---------------------------------------------------------------------------
(* C2 *)

\* C2: given a JPEG or PNG file, beforeUpload makes it the selection if and
\* only if its size is strictly below 4 MiB; a file of 4 MiB or more is
\* never in fileList and never in the body of a POST.
C2_SizeCeiling ==
    /\ [](\A f \in Files : f.size >= FourMiB => ~Selected(f) /\ ~Posted(f))
    /\ [][(Ran("beforeUpload") /\ last'.file.type \in PermittedTypes)
            => IF last'.file.size < FourMiB
               THEN Len(fileList') = 1 /\ fileList'[1].originFileObj = last'.file
               ELSE fileList' = fileList /\ last'.msg = MsgSize]_vars

\* A JPEG of exactly 4 MiB has just been turned away with the size message.
C2_Witness ==
    /\ last.op = "beforeUpload"
    /\ last.file.type = "image/jpeg"
    /\ last.file.size = FourMiB
    /\ last.msg = MsgSize
    /\ ~Selected(last.file)

---------------------------------------------------------------------------
(* C3 *)

\* C3: uploading is false whenever no request is in flight (the initial state
\* included), and every step that resolves a request (success, non-2xx
\* response, network failure, unreadable body) leaves uploading false.
C3_UploadingReset ==
    /\ [](requests = <<>> => ~uploading)
    /\ [][Len(requests') < Len(requests) => ~uploading']_vars

\* A network failure has just ended the only request, and the flag is down.
C3_Witness ==
    /\ last.op = "fetch.reject"
    /\ requests = <<>>
    /\ ~uploading
    /\ error = Str("Failed to fetch")

---------------------------------------------------------------------------
(* C4 *)

\* C4: at most one POST is in flight, and no step taken while uploading is
\* true issues a POST.
C4_SingleFlight ==
    /\ [](Len(requests) <= 1)
    /\ [][uploading => ~IssuesPost]_vars

\* A request is in flight with a file still selected: the button is enabled
\* but loading.
C4_Witness ==
    /\ Len(requests) = 1
    /\ uploading
    /\ fileList # <<>>
    /\ last.op = "handleUpload"

---------------------------------------------------------------------------
(* C5 *)

\* C5: handleUpload called with an empty selection raises the local message
\* and changes nothing: no POST, and uploading, result, error and the
\* selection are as before.
C5_NoFileNoPost ==
    [][(Ran("handleUpload") /\ fileList = <<>>)
        => /\ last'.msg = MsgSelect
           /\ requests' = requests
           /\ uploading' = uploading
           /\ result' = result
           /\ error' = error
           /\ fileList' = fileList]_vars

\* handleUpload has just run with nothing selected.
C5_Witness ==
    /\ last.op = "handleUpload"
    /\ last.msg = MsgSelect
    /\ fileList = <<>>
    /\ requests = <<>>

---------------------------------------------------------------------------
(* C6 *)

\* The requests that wait for fetch to settle.
AtFetch(rs) == { i \in 1..Len(rs) : rs[i].at = "fetch" }

\* C6: a handleUpload call that finds a file selected issues exactly one
\* POST, whose body is the single part `image` holding the file object of
\* the selection; no other step issues a POST or puts a resolved request
\* back to waiting for fetch.
C6_ExactlyOnePost ==
    /\ [][(Ran("handleUpload") /\ fileList # <<>>)
            => /\ Len(requests') = Len(requests) + 1
               /\ SubSeq(requests', 1, Len(requests)) = requests
               /\ requests'[Len(requests')].body
                    = <<[name |-> "image", value |-> fileList[1].originFileObj]>>
               /\ requests'[Len(requests')].body[1].value \in Files]_vars
    /\ [][~Ran("handleUpload")
            => /\ ~IssuesPost
               /\ Cardinality(AtFetch(requests')) <= Cardinality(AtFetch(requests))]_vars

\* handleUpload has just issued the only POST, with the selected file.
C6_Witness ==
    /\ last.op = "handleUpload"
    /\ last.msg = ""
    /\ Len(requests) = 1
    /\ requests[1].body = <<[name |-> "image", value |-> last.file]>>
    /\ Selected(last.file)

---------------------------------------------------------------------------
(* C7 *)

\* The body parsed as a JSON object that has the field k.
HasField(body, k) == body.ok /\ body.v.t = "obj" /\ k \in DOMAIN body.v.o

\* The body parsed as a JSON object whose field k is a non-empty string.
HasNonEmptyField(body, k) ==
    HasField(body, k) /\ body.v.o[k].t = "str" /\ body.v.o[k].s # ""

GenericError(status) == Str("Error " \o ToString(status))

\* C7 as stated: after a non-2xx response the error is the body's message
\* field if it has one, else its error field if it has one, else
\* "Error <status>" (also when the body does not parse); result is cleared.
C7_AsStated ==
    [][\A i \in 1..Len(requests), body \in ErrBodies :
         errorJsonSettles(i, body)
           => /\ error' = IF HasField(body, "message") THEN body.v.o["message"]
                          ELSE IF HasField(body, "error") THEN body.v.o["error"]
                          ELSE GenericError(requests[i].status)
              /\ result' = Null]_vars

\* C7, amended: after a non-2xx response the error is the body's message
\* field if it has a non-empty one, else its error field if it has a
\* non-empty one, else "Error <status>" (also when the body does not parse or
\* parses as null); result is cleared.
C7_NonEmptyFieldOrStatus ==
    [][\A i \in 1..Len(requests), body \in ErrBodies :
         errorJsonSettles(i, body)
           => /\ error' = IF HasNonEmptyField(body, "message") THEN body.v.o["message"]
                          ELSE IF HasNonEmptyField(body, "error") THEN body.v.o["error"]
                          ELSE GenericError(requests[i].status)
              /\ result' = Null]_vars

\* A non-2xx response has just resolved and its message is the error shown.
C7_Witness ==
    /\ last.op = "errorJson.settle"
    /\ error = Str("no food detected")
    /\ result = Null
    /\ ~uploading

---------------------------------------------------------------------------
(* C8 *)

\* C8: when the body of a 2xx response parses, the state right after has
\* result equal to the parsed body and no error.
C8_SuccessStoresResult ==
    [][\A i \in 1..Len(requests), body \in OkBodies :
         jsonResolves(i, body) => result' = body.v /\ error' = Null]_vars

\* A 2xx response has just resolved and its body is the result.
C8_Witness ==
    /\ last.op = "json.resolve"
    /\ result = AnalysisB
    /\ error = Null
    /\ ~uploading

---------------------------------------------------------------------------
(* C9 *)

\* C9: error and result are never both non-null, so the result section is
\* never rendered together with an error.
C9_ErrorExcludesResult == ~(error # Null /\ result # Null)

\* An error is shown and there is no result.
C9_Witness ==
    /\ error # Null
    /\ result = Null
    /\ last.op \in {"fetch.reject", "errorJson.settle", "json.reject"}

---------------------------------------------------------------------------
(* C10 *)

\* C10: fileList holds at most one file; beforeUpload accepting a file makes
\* it the whole selection, whatever was selected before; and the body of
\* every POST holds exactly one file.
C10_OneFileAtATime ==
    /\ [](/\ Len(fileList) <= 1
          /\ \A i \in 1..Len(requests) :
               Len(requests[i].body) = 1 /\ requests[i].body[1].value \in Files)
    /\ [][(Ran("beforeUpload") /\ last'.msg = "")
            => Len(fileList') = 1 /\ fileList'[1].originFileObj = last'.file]_vars

\* A second valid file has just been accepted while another one was
\* selected, and it alone is the selection.
C10_Witness ==
    /\ last.op = "beforeUpload"
    /\ last.msg = ""
    /\ last.had # NoFile
    /\ last.had # last.file
    /\ Len(fileList) = 1
    /\ fileList[1].originFileObj = last.file

---------------------------------------------------------------------------
(* C11 *)

\* The step resolved a request: a handleUpload call ran to its end.
ResolvesRequest == Len(requests') < Len(requests)

\* C11: result changes only in a step that resolves a request; accepting or
\* rejecting a file, removing the file, starting a submission, a preview
\* load and the arrival of a response's head all leave it as it was.
C11_ResultPersists ==
    /\ [][result' # result => ResolvesRequest]_vars
    /\ [][(Ran("beforeUpload") \/ Ran("onRemove") \/ Ran("handleUpload"))
            => result' = result]_vars

\* A result is displayed, the file was removed and another one has just been
\* accepted.
C11_Witness ==
    /\ result # Null
    /\ last.op = "beforeUpload"
    /\ last.msg = ""
    /\ last.had = NoFile
    /\ requests = <<>>

---------------------------------------------------------------------------
(* C12 *)

\* C12: when fetch rejects, or the body of a 2xx response cannot be parsed,
\* the state right after has the failure's message as error, no result and
\* uploading false; and no step but a handleUpload call issues a POST or
\* puts a request back to waiting for fetch.
C12_FailureIsTerminal ==
    /\ [][\A i \in 1..Len(requests), message \in NetworkErrors :
            fetchRejects(i, message)
              => error' = Str(message) /\ result' = Null /\ ~uploading']_vars
    /\ [][\A i \in 1..Len(requests), body \in OkBodies :
            jsonRejects(i, body)
              => error' = body.v /\ result' = Null /\ ~uploading']_vars
    /\ [][ResolvesRequest
            => /\ Len(requests') = Len(requests) - 1
               /\ Cardinality(AtFetch(requests')) <= Cardinality(AtFetch(requests))]_vars

\* The body of a 2xx response has just failed to parse: the parser's message
\* is the error and nothing is in flight.
C12_Witness ==
    /\ last.op = "json.reject"
    /\ error = Unparseable.v
    /\ result = Null
    /\ ~uploading
    /\ requests = <<>>

---------------------------------------------------------------------------
(* C13 *)

\* The Statistic elements of a rendered nutrition block, in order.
Statistics(block) == SelectSeq(block, LAMBDA e : e.el = "Statistic")

\* The four numbers of info with their titles and unit suffixes.
FourNumbers(info) ==
    <<Statistic("Calories", info.o.calories, "kcal"),
      Statistic("Protein", info.o.protein, "g"),
      Statistic("Carbs", info.o.carbs, "g"),
      Statistic("Fats", info.o.fats, "g")>>

\* What is rendered of a result besides its nutrition block.
RestRendered(view) ==
    /\ view.detected = ListOf(result.o.detected_food.a)
    /\ view.main.value = result.o.main_ingredient
    /\ view.alternative.value = result.o.healthier_alternative

\* C13 as stated: whenever nutrition_info has an error field only the error
\* text is rendered, without any of the four numbers; otherwise the name and
\* the four numbers with the suffixes kcal, g, g, g; the food list, the main
\* ingredient and the alternative are rendered in both cases.
C13_AsStated ==
    result # Null =>
        LET view == RenderResults[1]
            info == result.o.nutrition_info
        IN  /\ RestRendered(view)
            /\ IF "error" \in DOMAIN info.o
               THEN view.nutrition = <<Text("danger", info.o.error)>>
               ELSE /\ Statistics(view.nutrition) = FourNumbers(info)
                    /\ view.nutrition[1].value = info.o.name

\* C13, amended: only the error text is rendered when nutrition_info has a
\* non-empty error; when the error is absent or empty, the name and the four
\* numbers are rendered with the suffixes kcal, g, g, g; the food list (an
\* empty one included), the main ingredient and the alternative are rendered
\* in both cases.
C13_BranchOnNonEmptyError ==
    result # Null =>
        LET view == RenderResults[1]
            info == result.o.nutrition_info
        IN  /\ RestRendered(view)
            /\ IF "error" \in DOMAIN info.o /\ info.o.error # Str("")
               THEN /\ view.nutrition = <<Text("danger", info.o.error)>>
                    /\ Statistics(view.nutrition) = <<>>
               ELSE /\ Statistics(view.nutrition) = FourNumbers(info)
                    /\ view.nutrition[1].value = info.o.name

\* A result with a nutrition error and no detected food is displayed: the
\* list is empty and the nutrition block is the error text alone.
C13_Witness ==
    /\ result = AnalysisB
    /\ RenderResults[1].detected = ListOf(<<>>)
    /\ RenderResults[1].nutrition = <<Text("danger", Str("No nutrition data"))>>

---------------------------------------------------------------------------
(* C14 *)

\* C14: a beforeUpload call that rejects its file (wrong type or too large)
\* leaves the selection, the preview, error, result and uploading exactly as
\* they were, and starts no read and no request.
C14_RejectionChangesNothing ==
    [][(Ran("beforeUpload") /\ last'.msg # "")
        => /\ fileList' = fileList
           /\ imageUrl' = imageUrl
           /\ error' = error
           /\ result' = result
           /\ uploading' = uploading
           /\ readers' = readers
           /\ requests' = requests]_vars

\* An oversized file has just been rejected while an error of the last
\* submission is shown and the file accepted before is still selected.
C14_Witness ==
    /\ last.op = "beforeUpload"
    /\ last.msg = MsgSize
    /\ last.had # NoFile
    /\ Selected(last.had)
    /\ error # Null

---------------------------------------------------------------------------
(* C15 *)

\* C15: requests resolve in the order in which they were issued: the request
\* that resolves is always the oldest one in flight. Hence no response of an
\* earlier submission arrives after a later submission has resolved, and the
\* outcome displayed once all have resolved is that of the submission
\* issued last.
C15_ResolveInOrder ==
    [][ResolvesRequest => requests' = Tail(requests)]_vars

\* A submission has just resolved with a 404, nothing is left in flight, and
\* what is displayed is its outcome.
C15_Witness ==
    /\ requests = <<>>
    /\ last.op = "errorJson.settle"
    /\ error = Str("Error 404")
    /\ result = Null
    /\ ~uploading

---------------------------------------------------------------------------
(* C16 *)

\* C16: whenever a preview is held, a file is selected and the preview is
\* the data URL of that file.
C16_PreviewOfSelection ==
    imageUrl # Null =>
        /\ fileList # <<>>
        /\ imageUrl = DataURL(fileList[1].originFileObj)

---------------------------------------------------------------------------
(* C17 *)

\* C17: uploading is true if and only if a request is in flight.
C17_UploadingIffInFlight == uploading <=> requests # <<>>

\* The head of the response has arrived and its body is being read: the
\* request is still in flight and the flag is still up.
C17_Witness ==
    /\ Len(requests) = 1
    /\ requests[1].at = "json"
    /\ uploading
    /\ last.op = "fetch.resolve"

---------------------------------------------------------------------------
(* C18 *)

\* C18: onRemove empties the selection and sets the preview and error to
\* null, leaving result, uploading and the requests in flight as they were;
\* and no step taken while the selection is empty issues a POST.
C18_RemoveKeepsRequests ==
    /\ [][Ran("onRemove")
            => /\ fileList' = <<>>
               /\ imageUrl' = Null
               /\ error' = Null
               /\ result' = result
               /\ uploading' = uploading
               /\ requests' = requests]_vars
    /\ [][(fileList = <<>> /\ fileList' = <<>>) => ~IssuesPost]_vars

\* The file was removed while its request was in flight, and the response
\* has just set the result all the same.
C18_Witness ==
    /\ fileList = <<>>
    /\ last.op = "json.resolve"
    /\ result # Null
    /\ requests = <<>>

====
